---- MODULE Spec2Model ----
(***************************************************************************)
(* Model of the web-config serial tool of the 8-key macropad               *)
(* (src/web-config/webserial.js, src/web-config/kb.js): the frame codec,   *)
(* the macro validator, the response parser of the read loop, and the      *)
(* connect / disconnect / send handlers with their suspension points.      *)
(*                                                                         *)
(* A JavaScript string is modelled as the sequence of its UTF-16 code      *)
(* units (natural numbers); a Uint8Array as a sequence of bytes 0..255.    *)
(***************************************************************************)
EXTENDS Integers, Sequences, FiniteSets, TLC

(***************************************************************************)
(* String primitives of the host language, as the code uses them.          *)
(***************************************************************************)

\* Position (1-based) of the first occurrence of t in s, 0 when there is none.
IndexOf(s, t) ==
  LET n == Len(s) - Len(t) + 1
      hits == { i \in 1..n : s[i] = t[1] /\ SubSeq(s, i, i + Len(t) - 1) = t }
  IN IF hits = {} THEN 0 ELSE CHOOSE i \in hits : \A j \in hits : i <= j

\* String.prototype.includes with a string argument.
includes(s, t) == IndexOf(s, t) # 0

\* replace matching the pattern without its last character (the closing
\* brace of a token).
replace_Prefix(s, t, c) ==
  LET u == SubSeq(t, 1, Len(t) - 1)
      p == IndexOf(s, u)
  IN IF p = 0 THEN s
     ELSE SubSeq(s, 1, p - 1) \o <<c>> \o SubSeq(s, p + Len(u), Len(s))

\* String.prototype.replace with a string pattern: only the FIRST occurrence
\* of t is replaced, by the one code unit c.
replace(s, t, c) ==
  LET i == IndexOf(s, t)
  IN IF i = 0 THEN s
     ELSE SubSeq(s, 1, i - 1) \o <<c>> \o SubSeq(s, i + Len(t), Len(s))

\* n copies of the code unit c.
Rep(c, n) == [i \in 1..n |-> c]

\* Concatenation of a sequence of strings.
RECURSIVE Flatten(_)
Flatten(ss) == IF ss = <<>> THEN <<>> ELSE Head(ss) \o Flatten(Tail(ss))

(***************************************************************************)
(* ModifierTable: the bracketed tokens and their sentinel code units, in   *)
(* the order replaceModifier applies them.                                 *)
(***************************************************************************)
ModifierTable ==
  <<
     <<<<123, 108, 99, 116, 114, 108, 125>>, 224>>,   \* 304: {lctrl} -> \xe0
     <<<<123, 108, 115, 104, 105, 102, 116, 125>>, 225>>,   \* 305: {lshift} -> \xe1
     <<<<123, 108, 97, 108, 116, 125>>, 226>>,   \* 306: {lalt} -> \xe2
     <<<<123, 108, 103, 117, 105, 125>>, 227>>,   \* 307: {lgui} -> \xe3
     <<<<123, 114, 99, 116, 114, 108, 125>>, 228>>,   \* 308: {rctrl} -> \xe4
     <<<<123, 114, 115, 104, 105, 102, 116, 125>>, 229>>,   \* 309: {rshift} -> \xe5
     <<<<123, 114, 97, 108, 116, 125>>, 230>>,   \* 310: {ralt} -> \xe6
     <<<<123, 114, 103, 117, 105, 125>>, 231>>,   \* 311: {rgui} -> \xe7
     <<<<123, 97, 114, 114, 111, 119, 117, 112, 125>>, 210>>,   \* 315: {arrowup} -> \xd2
     <<<<123, 97, 114, 114, 111, 119, 100, 111, 119, 110, 125>>, 209>>,   \* 316: {arrowdown} -> \xd1
     <<<<123, 97, 114, 114, 111, 119, 108, 101, 102, 116, 125>>, 208>>,   \* 317: {arrowleft} -> \xd0
     <<<<123, 97, 114, 114, 111, 119, 114, 105, 103, 104, 116, 125>>, 207>>,   \* 318: {arrowright} -> \xcf
     <<<<123, 112, 97, 103, 101, 100, 111, 119, 110, 125>>, 206>>,   \* 319: {pagedown} -> \xce
     <<<<123, 101, 110, 100, 125>>, 205>>,   \* 320: {end} -> \xcd
     <<<<123, 100, 101, 108, 101, 116, 101, 125>>, 204>>,   \* 321: {delete} -> \xcc
     <<<<123, 112, 97, 103, 101, 117, 112, 125>>, 203>>,   \* 322: {pageup} -> \xcb
     <<<<123, 104, 111, 109, 101, 125>>, 202>>,   \* 323: {home} -> \xca
     <<<<123, 105, 110, 115, 101, 114, 116, 125>>, 201>>,   \* 324: {insert} -> \xc9
     <<<<123, 112, 97, 117, 115, 101, 125>>, 200>>,   \* 325: {pause} -> \xc8
     <<<<123, 115, 99, 114, 111, 108, 108, 108, 111, 99, 107, 125>>, 199>>,   \* 326: {scrolllock} -> \xc7
     <<<<123, 112, 114, 116, 115, 99, 114, 125>>, 198>>,   \* 327: {prtscr} -> \xc6
     <<<<123, 102, 49, 50, 125>>, 197>>,   \* 328: {f12} -> \xc5
     <<<<123, 102, 49, 49, 125>>, 196>>,   \* 329: {f11} -> \xc4
     <<<<123, 102, 49, 48, 125>>, 195>>,   \* 330: {f10} -> \xc3
     <<<<123, 102, 57, 125>>, 194>>,   \* 331: {f9} -> \xc2
     <<<<123, 102, 56, 125>>, 193>>,   \* 332: {f8} -> \xc1
     <<<<123, 102, 55, 125>>, 192>>,   \* 333: {f7} -> \xc0
     <<<<123, 102, 54, 125>>, 191>>,   \* 334: {f6} -> \xbf
     <<<<123, 102, 53, 125>>, 190>>,   \* 335: {f5} -> \xbe
     <<<<123, 102, 52, 125>>, 189>>,   \* 336: {f4} -> \xbd
     <<<<123, 102, 51, 125>>, 188>>,   \* 337: {f3} -> \xbc
     <<<<123, 102, 50, 125>>, 187>>,   \* 338: {f2} -> \xbb
     <<<<123, 102, 49, 125>>, 186>>,   \* 339: {f1} -> \xba
     <<<<123, 101, 110, 116, 101, 114, 125>>, 168>>,   \* 341: {enter} -> \xa8
     <<<<123, 101, 115, 99, 97, 112, 101, 125>>, 169>>,   \* 342: {escape} -> \xa9
     <<<<123, 98, 107, 115, 112, 97, 99, 101, 125>>, 170>>,   \* 343: {bkspace} -> \xaa
     <<<<123, 116, 97, 98, 125>>, 171>>,   \* 344: {tab} -> \xab
     <<<<123, 115, 112, 97, 99, 101, 125>>, 172>>    \* 345: {space} -> \xac
  >>

\* The 8 modifier names getModifierNum looks for.
ModifierNames ==
  <<
     <<123, 108, 99, 116, 114, 108, 125>>,   \* 264: {lctrl}
     <<123, 108, 115, 104, 105, 102, 116, 125>>,   \* 265: {lshift}
     <<123, 108, 97, 108, 116, 125>>,   \* 266: {lalt}
     <<123, 108, 103, 117, 105, 125>>,   \* 267: {lgui}
     <<123, 114, 99, 116, 114, 108, 125>>,   \* 268: {rctrl}
     <<123, 114, 115, 104, 105, 102, 116, 125>>,   \* 269: {rshift}
     <<123, 114, 97, 108, 116, 125>>,   \* 270: {ralt}
     <<123, 114, 103, 117, 105, 125>>    \* 271: {rgui}
  >>

\* The replace calls from the k-th on, applied in order to s (nothing is left
\* to replace in an empty string).
RECURSIVE replaceFrom(_, _)
replaceFrom(s, k) ==
  IF k > Len(ModifierTable) \/ s = <<>> THEN s
  ELSE replaceFrom(replace(s, ModifierTable[k][1], ModifierTable[k][2]), k + 1)

\* replaceModifier (webserial.js 303-349): the 38 replace calls in order.
replaceModifier(input_str) == replaceFrom(input_str, 1)

\* getModifierNum (262-273): how many of the 8 modifier names occur in the text.
getModifierNum(input_str) ==
  LET present == { k \in 1..Len(ModifierNames) : includes(input_str, ModifierNames[k]) }
  IN Cardinality(present)

\* The limits is_valid compares against.
MaxModifiedChars == 6
MaxPlainChars == 128

\* is_valid with the comparison of line 293 off by one.
is_valid_OffByOne(input_str) ==
  LET len == Len(replaceModifier(input_str))
      modifierNum == getModifierNum(input_str)
  IN IF modifierNum > 0
     THEN ~(len - modifierNum > MaxModifiedChars)
     ELSE ~(len >= MaxPlainChars)

\* is_valid (275-301): the value it returns.
is_valid(input_str) ==
  LET len == Len(replaceModifier(input_str))
      modifierNum == getModifierNum(input_str)
  IN IF modifierNum > 0
     THEN ~(len - modifierNum > MaxModifiedChars)
     ELSE ~(len > MaxPlainChars)

\* is_valid: the alert it raises when it returns false.
is_valid_alert(input_str) ==
  IF getModifierNum(input_str) > 0
  THEN "only 6 chars allowed when using key modifier, such as {ctrl}"
  ELSE "too many chars, only 64 chars allowed"

\* toU8Array (103-115): code units stored into a Uint8Array (modulo 256), then
\* byte 3 overwritten by len - 4 (again modulo 256; a store past the end of
\* the array is ignored).
toU8Array(input_str) ==
  LET len == Len(input_str)
  IN [i \in 1..len |-> IF i = 4 THEN (len - 4) % 256 ELSE input_str[i] % 256]

Magic == <<101, 98, 102>>                                       \* "ebf"

\* encodeLedConfig (204-218)
encodeLedConfig(color, brightness) ==
  Magic \o <<48>> \o <<49>> \o SubSeq(color, 2, Len(color)) \o brightness

\* encodeWifiConfig (443-458)
encodeWifiConfig(ssid, password) ==
  Magic \o <<48>> \o <<52>> \o ssid \o <<46>> \o password

\* The string sendQuereVersion builds (190-192).
VersionQuery == Magic \o <<48>> \o <<53>>

(***************************************************************************)
(* parseInt(text, 10): leading white space skipped, an optional sign, then *)
(* the longest run of decimal digits; NaN when there is no digit.  White   *)
(* space is every StrWhiteSpaceChar: the WhiteSpace code units (tab, VT,   *)
(* FF, U+FEFF and the space separators U+0020, U+00A0, U+1680,             *)
(* U+2000..U+200A, U+202F, U+205F, U+3000) and the line terminators.       *)
(***************************************************************************)
IsDigit(c) == c >= 48 /\ c <= 57
IsWhiteSpace(c) ==
  \/ c \in {9, 10, 11, 12, 13, 32, 160, 5760, 8232, 8233, 8239, 8287, 12288,
            65279}
  \/ c >= 8192 /\ c <= 8202

\* s from its first code unit that is not white space.
SkipWhite(s) ==
  LET others == { i \in 1..Len(s) : ~IsWhiteSpace(s[i]) }
  IN IF others = {} THEN <<>>
     ELSE SubSeq(s, CHOOSE i \in others : \A j \in others : i <= j, Len(s))

(***************************************************************************)
(* The Number parseInt returns is a double.  A value of the model is a     *)
(* record: NaN, an infinity, or a finite integer given by its sign and the *)
(* decimal digits of its exact value (most significant first, no leading   *)
(* zero); -0 is the zero with neg TRUE.  A digit run below 2^53 is exact,  *)
(* a longer one is rounded to the nearest double, ties to even.            *)
(***************************************************************************)
NaN == [nan |-> TRUE, inf |-> FALSE, neg |-> FALSE, digits |-> <<>>]
Infinity(negative) ==
  [nan |-> FALSE, inf |-> TRUE, neg |-> negative, digits |-> <<>>]
Finite(negative, d) ==
  [nan |-> FALSE, inf |-> FALSE, neg |-> negative, digits |-> d]

\* The decimal digits of a natural number.
RECURSIVE Decimal(_)
Decimal(n) == IF n < 10 THEN <<n>> ELSE Append(Decimal(n \div 10), n % 10)

\* The Number of a small integer constant.
Num(n) == IF n < 0 THEN Finite(TRUE, Decimal(0 - n)) ELSE Finite(FALSE, Decimal(n))

\* The longest run of decimal digits s starts with, as digit values.
DigitRun(s) ==
  LET others == { i \in 1..Len(s) : ~IsDigit(s[i]) }
      stop == IF others = {} THEN Len(s) + 1
              ELSE CHOOSE i \in others : \A j \in others : i <= j
  IN SubSeq([i \in 1..(stop - 1) |-> s[i] - 48], 1, stop - 1)

\* Without its leading zeros; one digit is kept.
StripZeros(d) ==
  LET nonzero == { i \in 1..Len(d) : d[i] # 0 }
      first == IF nonzero = {} THEN Len(d)
               ELSE CHOOSE i \in nonzero : \A j \in nonzero : i <= j
  IN SubSeq(d, first, Len(d))

\* a < b, a and b digit sequences without leading zeros.
DigitsLess(a, b) ==
  \/ Len(a) < Len(b)
  \/ /\ Len(a) = Len(b)
     /\ \E i \in 1..Len(a) :
          a[i] < b[i] /\ \A j \in 1..(i - 1) : a[j] = b[j]

IsOdd(d) == d[Len(d)] % 2 = 1

\* d \div 2 and 2 * d + bit, digit by digit.
Halve(d) ==
  StripZeros([i \in 1..Len(d) |->
                ((IF i > 1 /\ d[i - 1] % 2 = 1 THEN 10 ELSE 0) + d[i]) \div 2])
Twice(d, bit) ==
  LET low == [i \in 1..Len(d) |->
                ((2 * d[i]) % 10)
                  + (IF i < Len(d) THEN (IF d[i + 1] >= 5 THEN 1 ELSE 0)
                     ELSE bit)]
  IN (IF d[1] >= 5 THEN <<1>> ELSE <<>>) \o SubSeq(low, 1, Len(d))

\* d + 1
Successor(d) ==
  LET notNine == { i \in 1..Len(d) : d[i] # 9 }
  IN IF notNine = {} THEN <<1>> \o [i \in 1..Len(d) |-> 0]
     ELSE LET k == CHOOSE i \in notNine : \A j \in notNine : j <= i
          IN SubSeq([i \in 1..Len(d) |->
                       IF i < k THEN d[i] ELSE IF i = k THEN d[i] + 1 ELSE 0],
                    1, Len(d))

Two53 == <<9, 0, 0, 7, 1, 9, 9, 2, 5, 4, 7, 4, 0, 9, 9, 2>>
Two54 == <<1, 8, 0, 1, 4, 3, 9, 8, 5, 0, 9, 4, 8, 1, 9, 8, 4>>
Two70 == <<1, 1, 8, 0, 5, 9, 1, 6, 2, 0, 7, 1, 7, 4, 1, 1, 3, 0, 3, 4, 2, 4>>

\* n halvings of r.d; r.sticky tells whether a 1 bit was dropped, r.shift
\* counts the bits dropped.
RECURSIVE HalveTimes(_, _)
HalveTimes(r, n) ==
  IF n = 0 THEN r
  ELSE HalveTimes([d |-> Halve(r.d), sticky |-> r.sticky \/ IsOdd(r.d),
                   shift |-> r.shift + 1], n - 1)

\* Halved until 54 bits are left: 53 of the significand and the rounding bit.
RECURSIVE Narrow(_)
Narrow(r) ==
  IF DigitsLess(r.d, Two54) THEN r
  ELSE IF DigitsLess(r.d, Two70) THEN Narrow(HalveTimes(r, 1))
  ELSE Narrow(HalveTimes(r, 16))

\* n doublings of r.d, r.shift counting the doublings still to come.
RECURSIVE TwiceTimes(_, _)
TwiceTimes(r, n) ==
  IF n = 0 THEN r
  ELSE TwiceTimes([d |-> Twice(r.d, 0), shift |-> r.shift - 1], n - 1)

\* r.d * 2^r.shift
RECURSIVE Widen(_)
Widen(r) ==
  IF r.shift = 0 THEN r.d
  ELSE IF r.shift < 16 THEN Widen(TwiceTimes(r, 1))
  ELSE Widen(TwiceTimes(r, 16))

\* The double nearest to the natural number d (no leading zero), ties to
\* even; an infinity from 2^1024 - 2^970 on.  A number of more than 309
\* digits is above every finite double.
ToDouble(negative, d) ==
  IF DigitsLess(d, Two53) THEN Finite(negative, d)
  ELSE IF Len(d) > 309 THEN Infinity(negative)
  ELSE LET r == Narrow([d |-> d, sticky |-> FALSE, shift |-> 0])
           q == Halve(r.d)
           up == IsOdd(r.d) /\ (r.sticky \/ IsOdd(q))
           significand == IF up THEN Successor(q) ELSE q
           exponent == r.shift + 1
       IN IF exponent >= 972 \/ (significand = Two53 /\ exponent >= 971)
          THEN Infinity(negative)
          ELSE Finite(negative,
                      Widen([d |-> significand, shift |-> exponent]))

\* The Number of the digit run text starts with.
DigitsValue(text) == ToDouble(FALSE, StripZeros(DigitRun(text)))

parseInt(text) ==
  LET t == SkipWhite(text)
      negative == t # <<>> /\ Head(t) = 45
      signed == t # <<>> /\ Head(t) \in {43, 45}
      d == IF signed THEN Tail(t) ELSE t
  IN IF d = <<>> \/ ~IsDigit(Head(d)) THEN NaN
     ELSE ToDouble(negative, StripZeros(DigitRun(d)))

Marker == <<65, 80, 80, 45, 86, 69, 82, 61>>                    \* "APP-VER="

\* The test of line 61 on the accumulated text.
Recognized(buf) == Len(buf) > 8 /\ includes(buf, Marker)

\* Lines 63-64: rsp.substring(8), parsed.
ParsedVersion(buf) == parseInt(SubSeq(buf, 9, Len(buf)))

(***************************************************************************)
(* State.                                                                  *)
(***************************************************************************)
VARIABLES
  portOpen,         \* webserial.js:2   the connection flag
  profile,          \* webserial.js:8   current profile, a string
  version_number,   \* webserial.js:9   Num(n) or NaN
  keyNumber,        \* top.keyNumber (kb.js:28), a string; "undefined" until set
  lastKeyNumber,    \* kb.js:16
  portState,        \* the SerialPort behind `port`: unset, closed, opening, opened, closing
  pipeLocked,       \* port.readable is locked by pipeTo (webserial.js:41)
  readerLocked,     \* the lock of `reader` (webserial.js:44, 71)
  writerLocked,     \* port.writable is locked by `writer`
  conn,             \* the invocations of connectSerial: position, rsp, chunks read
  nConn,            \* how many invocations of connectSerial were started
  spc,              \* the send that holds the writer, and its position
  inflight,         \* the chunk handed to writer.write and not yet settled
  wire,             \* the frames written to the transport since it was last opened
  input,            \* value of the .input textarea
  alias_input,      \* value of .alias_input
  script_input,     \* value of .script_input
  aliasHidden,      \* aliasconainer.hidden
  scriptHidden,     \* scriptconainer.hidden
  connectHidden,    \* connectButton.hidden
  disconnectHidden, \* disconnectButton.hidden
  log,              \* text of #device_rsp
  lastAlert         \* text of the last alert(), "" when none was raised

vars ==
  << portOpen, profile, version_number, keyNumber, lastKeyNumber, portState,
     pipeLocked, readerLocked, writerLocked, conn, nConn, spc, inflight, wire,
     input, alias_input, script_input, aliasHidden, scriptHidden,
     connectHidden, disconnectHidden, log, lastAlert >>

domVars == << input, alias_input, script_input, aliasHidden, scriptHidden >>
keyVars == << profile, keyNumber, lastKeyNumber >>
writerVars == << writerLocked, spc, inflight >>
portVars == << portState, pipeLocked, readerLocked >>
buttonVars == << connectHidden, disconnectHidden >>

(***************************************************************************)
(* Bounds of the model and the inputs drawn from them.                     *)
(***************************************************************************)
MaxConnects == 2      \* invocations of connectSerial in one run
MaxChunks == 2        \* chunks one read loop receives
MaxWire == 4          \* frames written in one run
MaxTokens == 2        \* tokens at the head of a generated macro text
MaxShortPad == 8      \* plain characters after the tokens: 0..MaxShortPad ...
LongPadFrom == 124    \* ... and LongPadFrom..MaxLongPad
MaxLongPad == 130
MaxAliasPad == 2      \* alias texts: 0..MaxAliasPad plain characters ...
LongAliasFrom == 245  \* ... and LongAliasFrom..MaxLongAlias
MaxLongAlias == 252

Undefined == <<117, 110, 100, 101, 102, 105, 110, 101, 100>>   \* "undefined"
Profiles == { <<48>>, <<50>> }                                  \* '0', '2'
Buttons == { <<49>>, <<51>> }                                   \* '1', '3'

\* Inbound chunks.
AppVer7 == <<65, 80, 80, 45, 86, 69, 82, 61, 55>>               \* "APP-VER=7"
AppVer12 == <<65, 80, 80, 45, 86, 69, 82, 61, 49, 50>>          \* "APP-VER=12"
Garbage == <<103, 97, 114, 98, 97, 103, 101>>                   \* "garbage"
Chunks == { AppVer7, Garbage }
ParserChunks ==
  { AppVer7, AppVer12, Marker, <<53>>, <<55>>, <<49, 50>>, Garbage,
    <<65, 80, 80, 45>>, <<86, 69, 82, 61, 55>>,      \* "APP-", "VER=7"
    <<13, 10>>, <<55, 13, 10>> }                      \* "\r\n", "7\r\n"

\* Macro texts: up to MaxTokens tokens, then a run of 'a'.
TokenPieces ==
  { ModifierNames[k] : k \in 1..Len(ModifierNames) }
    \cup { ModifierTable[34][1], ModifierTable[33][1] }   \* {enter}, {f1}
TokenHeads ==
  UNION { [1..n -> TokenPieces] : n \in 0..MaxTokens }
PadLens == (0..MaxShortPad) \cup (LongPadFrom..MaxLongPad)
MacroInputs ==
  { Flatten(h) \o Rep(97, n) : h \in TokenHeads, n \in PadLens }
SmallInputs ==
  { <<97>>, ModifierNames[1] \o Rep(97, 7) }              \* "a", "{lctrl}aaaaaaa"
Enter == ModifierTable[34][1]                                   \* "{enter}"
CodecInputs ==
  { <<97>>, Enter \o Enter, ModifierNames[3] \o ModifierNames[3], Rep(97, 128) }
AliasLens == (0..MaxAliasPad) \cup (LongAliasFrom..MaxLongAlias)
AliasInputs ==
  { Rep(107, n) : n \in AliasLens } \cup { <<22797, 21046>>, Enter }
LedColors == { <<35, 102, 102, 48, 48, 48, 48>> }               \* "#ff0000"
LedBrightness == { <<53>> }                                     \* "5"
WifiInputs == { <<110>> }                                       \* ssid/password "n"

(***************************************************************************)
(* Encoders that read the globals profile and top.keyNumber.               *)
(***************************************************************************)

\* encode with the modifier flag always '0'.
encode_FlagAlwaysZero(input_str) ==
  LET replaced == replaceModifier(input_str)
  IN Magic \o <<48>> \o <<48>> \o profile \o <<46>> \o keyNumber \o <<58>>
       \o <<48>> \o replaced

\* encode (352-379)
encode(input_str) ==
  LET modifierNum == getModifierNum(input_str)
      replaced == replaceModifier(input_str)
  IN Magic \o <<48>> \o <<48>> \o profile \o <<46>> \o keyNumber \o <<58>>
       \o <<IF modifierNum > 0 THEN 49 ELSE 48>> \o replaced

\* encodeAliasConfig with the text appended in the remove branch as well.
encodeAliasConfig_KeepsText(enable, input_str) ==
  Magic \o <<48>> \o <<IF enable THEN 50 ELSE 51>> \o profile \o <<46>>
    \o keyNumber \o <<58>> \o input_str

\* encodeAliasConfig (381-410)
encodeAliasConfig(enable, input_str) ==
  IF enable
  THEN Magic \o <<48>> \o <<50>> \o profile \o <<46>> \o keyNumber \o <<58>> \o input_str
  ELSE Magic \o <<48>> \o <<51>> \o profile \o <<46>> \o keyNumber \o <<58>>

\* encodeScriptConfig (412-441)
encodeScriptConfig(enable, input_str) ==
  IF enable
  THEN Magic \o <<48>> \o <<54>> \o profile \o <<46>> \o keyNumber \o <<58>> \o input_str
  ELSE Magic \o <<48>> \o <<55>> \o profile \o <<46>> \o keyNumber \o <<58>>

(***************************************************************************)
(* Initial state: the globals as the scripts declare them, nothing         *)
(* connected, the connect button shown.                                    *)
(***************************************************************************)
NoConn == [pc |-> "none", rsp |-> <<>>, chunks |-> <<>>]

\* An invocation of connectSerial that has returned: through the catch of
\* line 80, or after line 78. Its locals are gone.
Caught == [pc |-> "caught", rsp |-> <<>>, chunks |-> <<>>]
Ended == [pc |-> "end", rsp |-> <<>>, chunks |-> <<>>]

InitGlobals ==
  /\ portOpen = FALSE
  /\ profile = <<48>>
  /\ version_number = Num(0)
  /\ keyNumber = Undefined
  /\ lastKeyNumber = <<48>>
  /\ portState = "unset"
  /\ pipeLocked = FALSE
  /\ readerLocked = FALSE
  /\ writerLocked = FALSE
  /\ conn = [i \in 1..MaxConnects |-> NoConn]
  /\ nConn = 0
  /\ spc = "none"
  /\ inflight = <<>>
  /\ wire = <<>>
  /\ connectHidden = FALSE
  /\ disconnectHidden = TRUE
  /\ log = ""
  /\ lastAlert = ""

Init ==
  /\ InitGlobals
  /\ input \in SmallInputs
  /\ alias_input = <<107>>
  /\ script_input = <<115>>
  /\ aliasHidden = FALSE
  /\ scriptHidden = TRUE

(***************************************************************************)
(* The writer.                                                             *)
(***************************************************************************)

\* A writer handed out while another one holds the stream.
CanGetWriter_IgnoresLock(state, locked) == state = "opened"

\* port.writable.getWriter() returns a writer: the port is open (port.writable
\* is null otherwise) and the stream is not locked. Otherwise it throws.
CanGetWriter(state, locked) == state = "opened" /\ ~locked

\* getWriter and the first writer.write of a send, or the TypeError that ends
\* the send with nothing written.
SendStart(can, kind, chunk) ==
  IF can
  THEN /\ writerLocked' = TRUE
       /\ spc' = kind
       /\ inflight' = chunk
  ELSE UNCHANGED writerVars

\* connectSerial without the version query of line 53.
sendQuereVersion_Skipped(can) == UNCHANGED writerVars

\* sendQuereVersion (185-201), up to its await.
sendQuereVersion(can) == SendStart(can, "query", toU8Array(VersionQuery))

\* sendConfig with the writer acquired before the text is validated.
sendConfig_NoValidation ==
  /\ SendStart(CanGetWriter(portState, writerLocked), "cfg1",
               toU8Array(encode(input)))
  /\ lastAlert' = (IF is_valid(input) THEN lastAlert ELSE is_valid_alert(input))

\* sendConfig (119-136), up to its first await.
sendConfig ==
  IF ~is_valid(input)
  THEN /\ lastAlert' = is_valid_alert(input)
       /\ UNCHANGED writerVars
  ELSE /\ SendStart(CanGetWriter(portState, writerLocked), "cfg1",
                    toU8Array(encode(input)))
       /\ UNCHANGED lastAlert

\* sendLedConfig (219-232), up to its await.
sendLedConfig(color, brightness) ==
  SendStart(CanGetWriter(portState, writerLocked), "led",
            toU8Array(encodeLedConfig(color, brightness)))

\* sendWifiConfig (170-182), up to its await.
sendWifiConfig(ssid, password) ==
  SendStart(CanGetWriter(portState, writerLocked), "wifi",
            toU8Array(encodeWifiConfig(ssid, password)))

\* sendAliasConfig (155-167), up to its await: the string itself is handed
\* to writer.write, toU8Array is not applied.
sendAliasConfig(enable) ==
  SendStart(CanGetWriter(portState, writerLocked), "alias",
            encodeAliasConfig(enable, alias_input))

(***************************************************************************)
(* Click handlers of the send buttons.                                     *)
(***************************************************************************)
NotConnectedAlert == "Please connect the device first."

\* saveConfigButton (86-100)
SaveConfigClick ==
  /\ Len(wire) + 3 <= MaxWire
  /\ IF portOpen
     THEN sendConfig
     ELSE /\ lastAlert' = NotConnectedAlert
          /\ UNCHANGED writerVars
  /\ UNCHANGED << portOpen, version_number, conn, nConn, wire, log,
                  keyVars, portVars, domVars, buttonVars >>

\* saveLedConfigButton without the test of portOpen (line 236).
SaveLedClick_NoGate ==
  /\ Len(wire) + 1 <= MaxWire
  /\ \E color \in LedColors, brightness \in LedBrightness :
       sendLedConfig(color, brightness) /\ UNCHANGED lastAlert
  /\ UNCHANGED << portOpen, version_number, conn, nConn, wire, log,
                  keyVars, portVars, domVars, buttonVars >>

\* saveLedConfigButton (234-246)
SaveLedClick ==
  /\ Len(wire) + 1 <= MaxWire
  /\ \E color \in LedColors, brightness \in LedBrightness :
       IF portOpen
       THEN sendLedConfig(color, brightness) /\ UNCHANGED lastAlert
       ELSE /\ lastAlert' = NotConnectedAlert
            /\ UNCHANGED writerVars
  /\ UNCHANGED << portOpen, version_number, conn, nConn, wire, log,
                  keyVars, portVars, domVars, buttonVars >>

\* updateFirmwareButton (248-260)
UpdateFirmwareClick ==
  /\ Len(wire) + 1 <= MaxWire
  /\ \E ssid \in WifiInputs, password \in WifiInputs :
       IF portOpen
       THEN sendWifiConfig(ssid, password) /\ UNCHANGED lastAlert
       ELSE /\ lastAlert' = NotConnectedAlert
            /\ UNCHANGED writerVars
  /\ UNCHANGED << portOpen, version_number, conn, nConn, wire, log,
                  keyVars, portVars, domVars, buttonVars >>

\* A call of sendAliasConfig (no handler of these sources calls it).
SendAliasConfigCall ==
  /\ Len(wire) + 1 <= MaxWire
  /\ \E enable \in BOOLEAN : sendAliasConfig(enable)
  /\ UNCHANGED << portOpen, version_number, conn, nConn, wire, log, lastAlert,
                  keyVars, portVars, domVars, buttonVars >>

(***************************************************************************)
(* Settlement of the write in flight.                                      *)
(***************************************************************************)

\* sendConfig without its script frame: the writer is released after the
\* write of the alias frame.
WriteDone_SkipsScript ==
  /\ inflight # <<>>
  /\ spc \in {"query", "cfg1", "cfg2", "cfg3", "led", "wifi"}
  /\ wire' = Append(wire, inflight)
  /\ IF spc = "cfg1"
     THEN /\ inflight' = toU8Array(encodeAliasConfig(~aliasHidden, alias_input))
          /\ spc' = "cfg2"
          /\ UNCHANGED writerLocked
     ELSE /\ inflight' = <<>>
          /\ spc' = "none"
          /\ writerLocked' = FALSE
  /\ UNCHANGED << portOpen, version_number, conn, nConn, log, lastAlert,
                  keyVars, portVars, domVars, buttonVars >>

\* The write in flight is fulfilled: the frame is on the transport and the
\* send resumes after its await. A chunk that is not a byte array (the
\* string of sendAliasConfig) is never accepted by the port's sink.
WriteDone ==
  /\ inflight # <<>>
  /\ spc \in {"query", "cfg1", "cfg2", "cfg3", "led", "wifi"}
  /\ wire' = Append(wire, inflight)
  /\ IF spc = "cfg1"
     THEN \* sendConfig 138-141
          /\ inflight' = toU8Array(encodeAliasConfig(~aliasHidden, alias_input))
          /\ spc' = "cfg2"
          /\ UNCHANGED writerLocked
     ELSE IF spc = "cfg2"
     THEN \* sendConfig 143-146
          /\ inflight' = toU8Array(encodeScriptConfig(~scriptHidden, script_input))
          /\ spc' = "cfg3"
          /\ UNCHANGED writerLocked
     ELSE \* writer.releaseLock() (149, 181, 200, 231)
          /\ inflight' = <<>>
          /\ spc' = "none"
          /\ writerLocked' = FALSE
  /\ UNCHANGED << portOpen, version_number, conn, nConn, log, lastAlert,
                  keyVars, portVars, domVars, buttonVars >>

\* The write in flight is rejected: the send ends by the exception at its
\* await, before its releaseLock.
WriteFail ==
  /\ inflight # <<>>
  /\ inflight' = <<>>
  /\ spc' = "failed"
  /\ UNCHANGED << writerLocked, wire >>
  /\ UNCHANGED << portOpen, version_number, conn, nConn, log, lastAlert,
                  keyVars, portVars, domVars, buttonVars >>

(***************************************************************************)
(* connectSerial (30-83) and the buttons around it.                        *)
(***************************************************************************)

\* connectButton (12-18): starts an invocation of connectSerial, which runs
\* to its first await (requestPort).
ConnectClick ==
  /\ ~connectHidden
  /\ nConn < MaxConnects
  /\ nConn' = nConn + 1
  /\ conn' = [conn EXCEPT ![nConn + 1] = [NoConn EXCEPT !.pc = "requestPort"]]
  /\ log' = "connecting"
  /\ UNCHANGED << portOpen, version_number, wire, lastAlert,
                  keyVars, portVars, writerVars, domVars, buttonVars >>

\* requestPort is rejected (no device chosen): the catch of line 80.
RequestPortFail(i) ==
  /\ conn[i].pc = "requestPort"
  /\ conn' = [conn EXCEPT ![i] = Caught]
  /\ log' = "error"
  /\ UNCHANGED << portOpen, version_number, nConn, wire, lastAlert,
                  keyVars, portVars, writerVars, domVars, buttonVars >>

\* port.open() called whatever the state of the port, and never rejected for
\* that state.
RequestPortOK_NoStateCheck(i) ==
  /\ conn[i].pc = "requestPort"
  /\ portState' = "opening"
  /\ conn' = [conn EXCEPT ![i].pc = "open"]
  /\ UNCHANGED << portOpen, version_number, nConn, wire, lastAlert, log,
                  pipeLocked, readerLocked,
                  keyVars, writerVars, domVars, buttonVars >>

\* requestPort returns the device's port and port.open is called (35-37).
\* open() on a port that is not closed is rejected at once.
RequestPortOK(i) ==
  /\ conn[i].pc = "requestPort"
  /\ IF portState \in {"unset", "closed"}
     THEN /\ portState' = "opening"
          /\ conn' = [conn EXCEPT ![i].pc = "open"]
          /\ UNCHANGED log
     ELSE /\ conn' = [conn EXCEPT ![i] = Caught]
          /\ log' = "error"
          /\ UNCHANGED portState
  /\ UNCHANGED << portOpen, version_number, nConn, wire, lastAlert,
                  pipeLocked, readerLocked,
                  keyVars, writerVars, domVars, buttonVars >>

\* A rejected port.open() that is swallowed: connectSerial goes on as if the
\* port had opened.
OpenFail_Proceeds(i) ==
  /\ conn[i].pc = "open"
  /\ portState' = "closed"
  /\ connectHidden' = TRUE
  /\ disconnectHidden' = FALSE
  /\ portOpen' = TRUE
  /\ log' = "Connected"
  /\ conn' = [conn EXCEPT ![i] = [pc |-> "read", rsp |-> <<>>, chunks |-> <<>>]]
  /\ UNCHANGED << version_number, nConn, wire, lastAlert, pipeLocked,
                  readerLocked, keyVars, writerVars, domVars >>

\* port.open is rejected: the catch of line 80.
OpenFail(i) ==
  /\ conn[i].pc = "open"
  /\ portState' = "closed"
  /\ conn' = [conn EXCEPT ![i] = Caught]
  /\ log' = "error"
  /\ UNCHANGED << portOpen, version_number, nConn, wire, lastAlert,
                  pipeLocked, readerLocked,
                  keyVars, writerVars, domVars, buttonVars >>

\* port.open is fulfilled: lines 39-57, up to the first reader.read().
OpenOK(i) ==
  /\ conn[i].pc = "open"
  /\ portState' = "opened"
  /\ pipeLocked' = TRUE
  /\ readerLocked' = TRUE
  /\ connectHidden' = TRUE
  /\ disconnectHidden' = FALSE
  /\ portOpen' = TRUE
  /\ log' = "Connected"
  /\ wire' = <<>>
  /\ sendQuereVersion(CanGetWriter("opened", writerLocked))
  /\ conn' = [conn EXCEPT ![i] = [pc |-> "read", rsp |-> <<>>, chunks |-> <<>>]]
  /\ UNCHANGED << version_number, nConn, lastAlert, keyVars, domVars >>

\* A disconnect that aborts the pending read: the invocations waiting in
\* reader.read() end at once, their chunk is never read.
DisconnectClick_AbortsRead ==
  /\ ~disconnectHidden
  /\ portOpen' = FALSE
  /\ connectHidden' = FALSE
  /\ disconnectHidden' = TRUE
  /\ conn' = [i \in 1..MaxConnects |->
                IF conn[i].pc = "read" THEN Caught ELSE conn[i]]
  /\ UNCHANGED << version_number, nConn, wire, log, lastAlert,
                  keyVars, portVars, writerVars, domVars >>

\* disconnectButton (21-28)
DisconnectClick ==
  /\ ~disconnectHidden
  /\ portOpen' = FALSE
  /\ connectHidden' = FALSE
  /\ disconnectHidden' = TRUE
  /\ UNCHANGED << version_number, conn, nConn, wire, log, lastAlert,
                  keyVars, portVars, writerVars, domVars >>

\* Lines 76-77 for invocation i: port.close() is called. It is rejected when
\* a stream of the port is locked (the catch of line 80); otherwise the port
\* is closing until CloseDone.
LeaveLoop(i, c, pipe) ==
  IF pipe \/ writerLocked
  THEN /\ conn' = [c EXCEPT ![i] = Caught]
       /\ log' = "error"
       /\ UNCHANGED portState
  ELSE /\ conn' = [c EXCEPT ![i].pc = "close"]
       /\ log' = "disconnecting"
       /\ portState' = "closing"

\* The parser with the length test of line 61 as >= 8.
ParserStep_ShortMarker(i, value) ==
  LET buf == conn[i].rsp \o value
  IN IF Len(buf) >= 8 /\ includes(buf, Marker)
     THEN [rsp |-> <<>>, version |-> ParsedVersion(buf)]
     ELSE [rsp |-> buf, version |-> version_number]

\* Lines 58-68: what one chunk does to rsp and version_number.
ParserStep(i, value) ==
  LET buf == conn[i].rsp \o value
  IN IF Recognized(buf)
     THEN [rsp |-> <<>>, version |-> ParsedVersion(buf)]
     ELSE [rsp |-> buf, version |-> version_number]

\* reader.read() yields a chunk (57-68), then the loop test of line 56.
ReadChunk(i, value) ==
  /\ conn[i].pc = "read"
  /\ Len(conn[i].chunks) < MaxChunks
  /\ LET r == ParserStep(i, value)
         c == [conn EXCEPT ![i].rsp = r.rsp,
                           ![i].chunks = Append(conn[i].chunks, value)]
     IN /\ version_number' = r.version
        /\ IF portOpen /\ portState = "opened"
           THEN /\ conn' = c
                /\ UNCHANGED << log, portState >>
           ELSE LeaveLoop(i, c, pipeLocked)
  /\ UNCHANGED << portOpen, nConn, wire, lastAlert, pipeLocked, readerLocked,
                  keyVars, writerVars, domVars, buttonVars >>

\* reader.read() yields done (69-73): the stream has ended, the pipe with it.
ReadDone(i) ==
  /\ conn[i].pc = "read"
  /\ readerLocked' = FALSE
  /\ pipeLocked' = FALSE
  /\ LeaveLoop(i, conn, FALSE)
  /\ UNCHANGED << portOpen, version_number, nConn, wire, lastAlert,
                  keyVars, writerVars, domVars, buttonVars >>

\* reader.read() is rejected: the catch of line 80.  The stream that failed
\* is port.readable, so the pipe of line 41 has let go of it; `reader` keeps
\* its lock, the catch does not release it.
ReadError(i) ==
  /\ conn[i].pc = "read"
  /\ conn' = [conn EXCEPT ![i] = Caught]
  /\ log' = "error"
  /\ pipeLocked' = FALSE
  /\ UNCHANGED << portOpen, version_number, nConn, wire, lastAlert, portState,
                  readerLocked, keyVars, writerVars, domVars, buttonVars >>

\* port.close() is fulfilled (77-78).
CloseDone(i) ==
  /\ conn[i].pc = "close"
  /\ portState' = "closed"
  /\ conn' = [conn EXCEPT ![i] = Ended]
  /\ log' = "disconnected"
  /\ UNCHANGED << portOpen, version_number, nConn, wire, lastAlert,
                  pipeLocked, readerLocked,
                  keyVars, writerVars, domVars, buttonVars >>

(***************************************************************************)
(* Selections and edits.                                                   *)
(***************************************************************************)

\* setProfile (471-494)
setProfile(profileNum) ==
  /\ profile # profileNum
  /\ profile' = profileNum
  /\ UNCHANGED << portOpen, version_number, keyNumber, lastKeyNumber, conn, nConn,
                  wire, log, lastAlert, portVars, writerVars, domVars, buttonVars >>

\* onMicropadPress (kb.js 18-36).  Another key than the last one: line 28
\* assigns top.keyNumber and line 31 calls sendQuereCfg, which no file of
\* src/ defines, so the handler ends there with a ReferenceError and line 34
\* is not reached.  The same key again: line 34 alone.
onMicropadPress(button) ==
  /\ IF lastKeyNumber # <<>> /\ lastKeyNumber # button
     THEN /\ keyNumber' = button
          /\ UNCHANGED lastKeyNumber
     ELSE /\ lastKeyNumber' = button
          /\ UNCHANGED keyNumber
  /\ UNCHANGED << portOpen, version_number, profile, conn, nConn,
                  wire, log, lastAlert, portVars, writerVars, domVars, buttonVars >>

\* The macro text is edited (kb.js 108-146, 158-175).
EditInput(text) ==
  /\ input # text
  /\ input' = text
  /\ UNCHANGED << portOpen, version_number, conn, nConn, wire, log, lastAlert,
                  alias_input, script_input, aliasHidden, scriptHidden,
                  keyVars, portVars, writerVars, buttonVars >>

\* The alias and script containers are shown or hidden (read at 138, 143).
ToggleContainer ==
  /\ \/ aliasHidden' = ~aliasHidden /\ UNCHANGED scriptHidden
     \/ scriptHidden' = ~scriptHidden /\ UNCHANGED aliasHidden
  /\ UNCHANGED << portOpen, version_number, conn, nConn, wire, log, lastAlert,
                  input, alias_input, script_input,
                  keyVars, portVars, writerVars, buttonVars >>

(***************************************************************************)
(* The tool as a whole.                                                    *)
(***************************************************************************)
\* The connection life cycle with the sends: the selections (profile, key,
\* containers) stay as they are at start.
Next ==
  \/ ConnectClick
  \/ DisconnectClick
  \/ \E i \in 1..MaxConnects :
       \/ RequestPortOK(i)
       \/ RequestPortFail(i)
       \/ OpenOK(i)
       \/ OpenFail(i)
       \/ \E value \in Chunks : ReadChunk(i, value)
       \/ ReadDone(i)
       \/ ReadError(i)
       \/ CloseDone(i)
  \/ SaveConfigClick
  \/ SaveLedClick
  \/ UpdateFirmwareClick
  \/ WriteDone
  \/ WriteFail
  \/ \E text \in SmallInputs : EditInput(text)

Spec == Init /\ [][Next]_vars

\* The send buttons around the life of a port: every handler and every step
\* of connectSerial, as in Next; the text the device sends is no banner.
NextIdle ==
  \/ ConnectClick
  \/ DisconnectClick
  \/ \E i \in 1..MaxConnects :
       \/ RequestPortOK(i)
       \/ RequestPortFail(i)
       \/ OpenOK(i)
       \/ OpenFail(i)
       \/ ReadChunk(i, Garbage)
       \/ ReadDone(i)
       \/ ReadError(i)
       \/ CloseDone(i)
  \/ SaveConfigClick
  \/ SaveLedClick
  \/ UpdateFirmwareClick
  \/ WriteDone
  \/ WriteFail
  \/ \E text \in SmallInputs : EditInput(text)

SpecIdle == Init /\ [][NextIdle]_vars

(***************************************************************************)
(* Connected and idle: the state after connectSerial has opened the port   *)
(* and its version query has been written and its writer released.         *)
(***************************************************************************)
QueryBytes == <<101, 98, 102, 1, 53>>

InitConnected ==
  /\ portOpen = TRUE
  /\ version_number = Num(0)
  /\ lastKeyNumber = <<48>>
  /\ portState = "opened"
  /\ pipeLocked = TRUE
  /\ readerLocked = TRUE
  /\ writerLocked = FALSE
  /\ conn = [i \in 1..MaxConnects |->
               IF i = 1 THEN [pc |-> "read", rsp |-> <<>>, chunks |-> <<>>]
               ELSE NoConn]
  /\ nConn = 1
  /\ spc = "none"
  /\ inflight = <<>>
  /\ wire = <<QueryBytes>>
  /\ connectHidden = TRUE
  /\ disconnectHidden = FALSE
  /\ log = "Connected"
  /\ lastAlert = ""

\* The validator and the macro encoder on generated macro texts.
InitValid ==
  /\ profile = <<50>>
  /\ keyNumber = <<51>>
  /\ InitConnected
  /\ input \in MacroInputs
  /\ alias_input = <<107>>
  /\ script_input = <<115>>
  /\ aliasHidden = FALSE
  /\ scriptHidden = TRUE

NextValid == SaveConfigClick \/ WriteDone

SpecValid == InitValid /\ [][NextValid]_vars

\* Every send operation on generated payloads.
InitCodec ==
  /\ profile \in Profiles
  /\ keyNumber \in {<<51>>, Undefined}
  /\ InitConnected
  /\ input \in CodecInputs
  /\ alias_input \in AliasInputs
  /\ script_input = <<115>>
  /\ aliasHidden \in BOOLEAN
  /\ scriptHidden \in BOOLEAN

NextCodec ==
  \/ SaveConfigClick
  \/ SaveLedClick
  \/ UpdateFirmwareClick
  \/ SendAliasConfigCall
  \/ WriteDone
  \/ WriteFail

SpecCodec == InitCodec /\ [][NextCodec]_vars

\* The read loop on generated chunks.
InitParser ==
  /\ profile = <<48>>
  /\ keyNumber = <<49>>
  /\ InitConnected
  /\ input = <<97>>
  /\ alias_input = <<107>>
  /\ script_input = <<115>>
  /\ aliasHidden = FALSE
  /\ scriptHidden = TRUE

NextParser == \E value \in ParserChunks : ReadChunk(1, value)

SpecParser == InitParser /\ [][NextParser]_vars

\* The connection life cycle with one kind of send (the LED frame) beside
\* the version query.
InitConn == Init /\ input = <<97>>

NextConn ==
  \/ ConnectClick
  \/ DisconnectClick
  \/ \E i \in 1..MaxConnects :
       \/ RequestPortOK(i)
       \/ RequestPortFail(i)
       \/ OpenOK(i)
       \/ OpenFail(i)
       \/ \E value \in Chunks : ReadChunk(i, value)
       \/ ReadDone(i)
       \/ ReadError(i)
       \/ CloseDone(i)
  \/ SaveLedClick
  \/ WriteDone
  \/ WriteFail

SpecConn == InitConn /\ [][NextConn]_vars

\* The sends from the moment the port has opened: connectSerial is at its
\* first reader.read() and the write of its version query is in flight.
InitOpened ==
  /\ portOpen = TRUE
  /\ version_number = Num(0)
  /\ lastKeyNumber = <<48>>
  /\ portState = "opened"
  /\ pipeLocked = TRUE
  /\ readerLocked = TRUE
  /\ writerLocked = TRUE
  /\ conn = [i \in 1..MaxConnects |->
               IF i = 1 THEN [pc |-> "read", rsp |-> <<>>, chunks |-> <<>>]
               ELSE NoConn]
  /\ nConn = 1
  /\ spc = "query"
  /\ inflight = toU8Array(VersionQuery)
  /\ wire = <<>>
  /\ connectHidden = TRUE
  /\ disconnectHidden = FALSE
  /\ log = "Connected"
  /\ lastAlert = ""

InitSend ==
  /\ profile \in Profiles
  /\ keyNumber \in Buttons
  /\ InitOpened
  /\ input \in SmallInputs
  /\ alias_input = <<107>>
  /\ script_input = <<115>>
  /\ aliasHidden \in BOOLEAN
  /\ scriptHidden \in BOOLEAN

SpecSend == InitSend /\ [][NextCodec]_vars

\* Saves of macro texts made of tokens from all parts of the substitution
\* table.
OrderTokens ==
  { ModifierTable[k][1] : k \in {1, 3, 24, 33, 34, 38} }
    \* {lctrl}, {lalt}, {f10}, {f1}, {enter}, {space}
OrderInputs ==
  { Flatten(h) \o Rep(97, n) :
      h \in UNION { [1..m -> OrderTokens] : m \in 0..MaxTokens }, n \in 0..1 }

InitOrder ==
  /\ profile = <<50>>
  /\ keyNumber = <<51>>
  /\ InitConnected
  /\ input \in OrderInputs
  /\ alias_input = <<107>>
  /\ script_input = <<115>>
  /\ aliasHidden = FALSE
  /\ scriptHidden = TRUE

SpecOrder == InitOrder /\ [][NextValid]_vars

\* A save with profile switches and key selections between its writes.
InitSelect ==
  /\ profile \in Profiles
  /\ keyNumber \in Buttons
  /\ InitConnected
  /\ input = <<97>>
  /\ alias_input = <<107>>
  /\ script_input = <<115>>
  /\ aliasHidden \in BOOLEAN
  /\ scriptHidden \in BOOLEAN

NextSelect ==
  \/ SaveConfigClick
  \/ WriteDone
  \/ \E profileNum \in Profiles : setProfile(profileNum)
  \/ \E button \in Buttons : onMicropadPress(button)

SpecSelect == InitSelect /\ [][NextSelect]_vars

(***************************************************************************)
(* Properties.                                                             *)
(***************************************************************************)

\* The frames on the transport.
WireFrames == { wire[k] : k \in 1..Len(wire) }

\* A save has been accepted (its frames are in flight or written) or has been
\* refused with an alert, in a run that starts connected and idle.
SaveAccepted == spc # "none" \/ Len(wire) > 1
SaveRefused == lastAlert # ""

\* s starts with t.
StartsWith(s, t) == Len(s) >= Len(t) /\ SubSeq(s, 1, Len(t)) = t

\* The text s with the modifier names i and j exchanged at every occurrence.
RECURSIVE SwapTokens(_, _, _)
SwapTokens(s, i, j) ==
  LET p == IndexOf(s, <<123>>)
  IN IF p = 0 THEN s
     ELSE LET pre == SubSeq(s, 1, p - 1)
              rest == SubSeq(s, p, Len(s))
              after(t) == SubSeq(rest, Len(t) + 1, Len(rest))
          IN IF StartsWith(rest, ModifierNames[i])
             THEN pre \o ModifierNames[j] \o SwapTokens(after(ModifierNames[i]), i, j)
             ELSE IF StartsWith(rest, ModifierNames[j])
             THEN pre \o ModifierNames[i] \o SwapTokens(after(ModifierNames[j]), i, j)
             ELSE pre \o <<123>> \o SwapTokens(Tail(rest), i, j)

\* C1: in every frame written to the transport, the byte at offset 3 equals
\* the total frame length minus 4 (so re-deriving length - 4 from the frame
\* gives the stored value).
C1_LengthByteIsLengthMinus4 ==
  \A f \in WireFrames : f[4] = Len(f) - 4

\* C2: every frame that reaches the transport has total length minus 4 of at
\* most 255, the capacity of the one-byte length field.
C2_LengthFitsOneByte ==
  \A f \in WireFrames : Len(f) - 4 <= 255

\* C3: a macro text without modifier token is accepted by a save exactly
\* when its length after substitution is at most 128.
C3_PlainMacroLimit ==
  getModifierNum(input) = 0 =>
    LET len == Len(replaceModifier(input))
    IN /\ SaveAccepted => len <= 128
       /\ SaveRefused => len > 128
       /\ SaveRefused => ~SaveAccepted

\* C3 witness: a text of escaped length 128 without modifier was accepted and
\* its macro frame, 10 bytes of header and the 128 of the text, is in flight.
C3_Witness ==
  /\ getModifierNum(input) = 0
  /\ Len(replaceModifier(input)) = 128
  /\ spc = "cfg1"
  /\ Len(inflight) = 138

\* C4: a macro text with modifier tokens is accepted exactly when its escaped
\* length minus the number of modifier names present is at most 6, and the
\* outcome is the same when two modifier names are exchanged in the text.
C4_ModifierMacroLimit ==
  getModifierNum(input) > 0 =>
    LET n == Len(replaceModifier(input)) - getModifierNum(input)
        swaps == { SwapTokens(input, i, j) : i, j \in 1..Len(ModifierNames) }
    IN /\ SaveAccepted => n <= 6
       /\ SaveRefused => n > 6
       /\ SaveAccepted => \A t \in swaps : is_valid(t)
       /\ SaveRefused => \A t \in swaps : ~is_valid(t)

\* C5: a save whose macro text is_valid rejects acquires no writer, puts no
\* chunk in flight and starts no send, so none of its three frames is written.
C5_RejectedSaveSendsNothing ==
  [][ (SaveConfigClick /\ portOpen /\ ~is_valid(input))
        => UNCHANGED << writerLocked, spc, inflight, wire >> ]_vars

\* C5 witness: connected and idle, a save of an invalid text has raised the
\* alert of is_valid and the transport holds the version query only.
C5_Witness ==
  /\ portOpen /\ portState = "opened"
  /\ ~is_valid(input)
  /\ lastAlert = is_valid_alert(input)
  /\ spc = "none" /\ ~writerLocked
  /\ wire = <<QueryBytes>>

\* C6: the macro frame of a save contains no known bracketed token, and the
\* alias frame carries the alias text as it was typed.
C6_NoTokenLeftInMacroFrame ==
  /\ spc = "cfg1" =>
       \A k \in 1..Len(ModifierTable) : ~includes(inflight, ModifierTable[k][1])
  /\ (spc = "cfg2" /\ ~aliasHidden) =>
       SubSeq(inflight, Len(inflight) - Len(alias_input) + 1, Len(inflight))
         = [k \in 1..Len(alias_input) |-> alias_input[k] % 256]

\* The chunks read so far by the read loop, and the texts they add up to.
ChunksRead == conn[1].chunks
Prefixes(cs) == { SubSeq(cs, 1, n) : n \in 0..Len(cs) }
NeverRecognized(cs) == \A q \in Prefixes(cs) : ~Recognized(Flatten(q))

\* C7: after the chunk "APP-VER=" alone nothing is recognized and the buffer
\* holds it; after "APP-VER=" then "5" the version is 5 and the buffer is
\* empty. The buffer never keeps a recognized banner, and as long as nothing
\* was recognized it is the concatenation of the chunks and the version is
\* the initial one.
C7_ParserBuffer ==
  /\ ChunksRead = <<Marker>> =>
       version_number = Num(0) /\ conn[1].rsp = Marker
  /\ ChunksRead = <<Marker, <<53>>>> =>
       version_number = Num(5) /\ conn[1].rsp = <<>>
  /\ ~Recognized(conn[1].rsp)
  /\ NeverRecognized(ChunksRead) =>
       conn[1].rsp = Flatten(ChunksRead) /\ version_number = Num(0)
  /\ (ChunksRead # <<>>
      /\ NeverRecognized(SubSeq(ChunksRead, 1, Len(ChunksRead) - 1))
      /\ Recognized(Flatten(ChunksRead))) => conn[1].rsp = <<>>

\* C7 witness: "APP-VER=" then "5" were read; version 5, buffer empty.
C7_Witness ==
  /\ ChunksRead = <<Marker, <<53>>>>
  /\ version_number = Num(5)
  /\ conn[1].rsp = <<>>

\* The text that follows the first marker of buf.
AfterMarker(buf) == SubSeq(buf, IndexOf(buf, Marker) + Len(Marker), Len(buf))

\* C8: when the chunks read add up to a text in which the banner is first
\* recognized, version_number is the integer that follows the marker,
\* whatever text precedes the marker ("garbage" then "APP-VER=12" gives 12).
C8_VersionFollowsMarker ==
  /\ ChunksRead = <<Garbage, AppVer12>> => version_number = Num(12)
  /\ (ChunksRead # <<>>
      /\ NeverRecognized(SubSeq(ChunksRead, 1, Len(ChunksRead) - 1))
      /\ Recognized(Flatten(ChunksRead)))
       => version_number = parseInt(AfterMarker(Flatten(ChunksRead)))

\* C9: once the port is open, the first frame on the transport is the version
\* query "ebf", 1, "5": until it is written it is the write in flight (or has
\* failed, and nothing is written at all); and when the read loop has
\* received exactly "APP-VER=7", version_number is 7.
C9_QueryFirstThenVersion ==
  /\ wire # <<>> => wire[1] = QueryBytes
  /\ (portState = "opened" /\ wire = <<>>) =>
       \/ spc = "query" /\ inflight = QueryBytes /\ writerLocked
       \/ spc = "failed" /\ writerLocked
  /\ \A i \in 1..MaxConnects :
       (conn[i].pc = "read" /\ Flatten(conn[i].chunks) = AppVer7)
         => version_number = Num(7)

\* C9 witness: the query is the first frame written and the banner
\* "APP-VER=7" has been read.
C9_Witness ==
  /\ wire # <<>> /\ wire[1] = QueryBytes
  /\ \E i \in 1..MaxConnects : conn[i].pc = "read" /\ conn[i].chunks = <<AppVer7>>
  /\ version_number = Num(7)

\* C10: a click on the save, LED or firmware button while the manager is
\* not connected sends nothing. While the port is not open (never opened,
\* closed, opening or closing) the click acquires no writer, puts nothing in
\* flight, writes nothing and leaves the port as it is. While portOpen is
\* false, also after a disconnect request that has left the port open, the
\* handler rejects the click itself: it raises the alert "Please connect the
\* device first." and calls no send.
C10_NoSendWhileNotOpen ==
  [][ ((portState # "opened" \/ ~portOpen)
       /\ (SaveConfigClick \/ SaveLedClick \/ UpdateFirmwareClick))
        => /\ UNCHANGED << writerLocked, spc, inflight, wire, portState,
                           pipeLocked, readerLocked >>
           /\ ~portOpen => lastAlert' = NotConnectedAlert ]_vars

\* C10 witness: a send button was clicked before any port was opened: the
\* alert was raised, and nothing is held, in flight or written.
C10_Witness ==
  /\ portState = "unset"
  /\ lastAlert = NotConnectedAlert
  /\ ~writerLocked /\ spc = "none" /\ inflight = <<>> /\ wire = <<>>

\* The invocations of connectSerial that are in their read loop or closing
\* the port after it, and those waiting for port.open().
InSession == { i \in 1..MaxConnects : conn[i].pc \in {"read", "close"} }
Opening == { i \in 1..MaxConnects : conn[i].pc = "open" }

\* C11: at most one invocation of connectSerial is opening the port, in its
\* read loop or closing the port, at any time; a read loop runs on an opened
\* port only, and while its session is connected the connect button is
\* hidden. A connect that reaches port.open() while the port is opening,
\* opened or closing is rejected: it ends in the catch with the error shown
\* and changes nothing else.
C11_NoDoubleOpen ==
  /\ [](/\ Cardinality(InSession \cup Opening) <= 1
        /\ (portState = "opening") = (Opening # {})
        /\ \A i \in 1..MaxConnects :
             /\ conn[i].pc = "read" => (portState = "opened" /\ readerLocked)
             /\ (conn[i].pc = "read" /\ portOpen) => connectHidden)
  /\ [][ \A i \in 1..MaxConnects :
           (RequestPortOK(i) /\ portState \notin {"unset", "closed"})
             => /\ conn' = [conn EXCEPT ![i] = Caught]
                /\ log' = "error"
                /\ UNCHANGED << portOpen, version_number, nConn, wire, lastAlert,
                                portVars, keyVars, writerVars, domVars,
                                buttonVars >> ]_vars

\* C11 witness: after a disconnect request the first session's read loop is
\* still waiting for its read, and a second connect has been rejected.
C11_Witness ==
  /\ conn[1].pc = "read"
  /\ conn[2] = Caught
  /\ portState = "opened"
  /\ ~portOpen /\ ~connectHidden
  /\ log = "error"

\* C12: from Connected, a disconnect request and the end of the stream both
\* end in Disconnected. When an invocation of connectSerial that was in its
\* read loop returns (its pending read has returned a chunk after a
\* disconnect request, or has returned done, and the close of line 77 has
\* settled), the reader and the pipe have released the port's readable
\* stream, no writer holds its writable stream, the port is closed, portOpen
\* is false and the connect button is available again.
C12_SessionEndsDisconnected ==
  [][ \A i \in 1..MaxConnects :
        ( /\ \/ \E value \in Chunks : ReadChunk(i, value)
             \/ ReadDone(i)
             \/ CloseDone(i)
          /\ conn'[i].pc \in {"caught", "end"} )
          => /\ portState' = "closed"
             /\ ~readerLocked' /\ ~pipeLocked' /\ ~writerLocked'
             /\ ~portOpen'
             /\ ~connectHidden' ]_vars

\* C13: a connectSerial whose requestPort or port.open() fails while no
\* session is connected ends in its catch with the error shown; portOpen is
\* still false, no read loop was started (no lock taken on the streams), no
\* version query was started or written, a failed open leaves the port
\* closed, and an invocation that has ended in the catch never runs again
\* (no retry, no further invocation started by the failure).
C13_ConnectFailure ==
  /\ [][ \A i \in 1..MaxConnects :
           ( /\ ~portOpen
             /\ \/ RequestPortFail(i)
                \/ OpenFail(i)
                \/ (RequestPortOK(i) /\ portState \notin {"unset", "closed"}) )
             => /\ log' = "error"
                /\ conn'[i] = Caught
                /\ ~portOpen'
                /\ conn[i].pc = "open" => portState' = "closed"
                /\ UNCHANGED << nConn, wire, writerVars, pipeLocked,
                                readerLocked, version_number, buttonVars >> ]_vars
  /\ [][ \A i \in 1..MaxConnects :
           conn[i] = Caught => conn'[i] = Caught ]_vars

\* C13 witness: the only connectSerial so far has failed at port.open(): the
\* error is shown, the port is closed, nothing is connected or written.
C13_Witness ==
  /\ nConn = 1
  /\ conn[1] = Caught
  /\ portState = "closed"
  /\ log = "error"
  /\ ~portOpen /\ ~readerLocked /\ ~pipeLocked
  /\ spc = "none" /\ wire = <<>>

\* C14: a read or a write that fails while connected makes the manager leave
\* Connected: portOpen becomes false, and after a failed read the port is
\* being closed or closed.
C14_IOErrorLeavesConnected ==
  [][ /\ WriteFail => ~portOpen'
      /\ \A i \in 1..MaxConnects :
           ReadError(i) => (~portOpen' /\ portState' \in {"closing", "closed"})
    ]_vars

\* The type character of a frame (offset 4).
FrameType(f) == f[5]
MacroTypes == {48}          \* '0'
AliasTypes == {50, 51}      \* '2', '3'
ScriptTypes == {54, 55}     \* '6', '7'

\* C15: the writer is locked exactly while a send holds it, a chunk is in
\* flight only for the send that holds the writer, and the three frames of a
\* save are never separated on the transport by a frame of another send: a
\* macro frame is followed by the alias frame and then the script frame of
\* the same save, or that save still holds the writer.
C15_OneWriterSection ==
  /\ writerLocked = (spc # "none")
  /\ inflight # <<>> => (writerLocked /\ spc \notin {"none", "failed"})
  /\ \A k \in 1..Len(wire) :
       /\ FrameType(wire[k]) \in MacroTypes =>
            IF k + 1 <= Len(wire)
            THEN FrameType(wire[k + 1]) \in AliasTypes
            ELSE spc \in {"cfg2", "failed"}
       /\ FrameType(wire[k]) \in AliasTypes =>
            /\ k > 1 /\ FrameType(wire[k - 1]) \in MacroTypes
            /\ IF k + 1 <= Len(wire)
               THEN FrameType(wire[k + 1]) \in ScriptTypes
               ELSE spc \in {"cfg3", "failed"}
       /\ FrameType(wire[k]) \in ScriptTypes =>
            k > 2 /\ FrameType(wire[k - 1]) \in AliasTypes

\* C15 witness: the version query and then the three frames of a save are on
\* the transport, in this order, and the writer has been released.
C15_Witness ==
  /\ Len(wire) = 4
  /\ wire[1] = QueryBytes
  /\ FrameType(wire[2]) \in MacroTypes
  /\ FrameType(wire[3]) \in AliasTypes
  /\ FrameType(wire[4]) \in ScriptTypes
  /\ spc = "none" /\ ~writerLocked

\* A click on a send button in the current state starts a send: the send
\* takes the writer and its first chunk is in flight.
LedSendTaken == ENABLED (SaveLedClick /\ spc' = "led" /\ inflight' # <<>>)
WifiSendTaken == ENABLED (UpdateFirmwareClick /\ spc' = "wifi" /\ inflight' # <<>>)
SaveSendTaken == ENABLED (SaveConfigClick /\ spc' = "cfg1" /\ inflight' # <<>>)

\* C16: in every state in which the tool is connected (portOpen is true and
\* the port is open), a send that is invoked is taken up and not dropped,
\* also when an earlier send (the connect-time version query, a save) still
\* holds the writer: a click on the LED or firmware button, or on the save
\* button with a valid text, starts its send.
C16_SendsNotLost ==
  (portOpen /\ portState = "opened") =>
     /\ Len(wire) + 1 <= MaxWire => (LedSendTaken /\ WifiSendTaken)
     /\ (Len(wire) + 3 <= MaxWire /\ is_valid(input)) => SaveSendTaken

\* The remove frame of type character t for the selected profile and key:
\* "ebf", the length byte, t, profile, ".", key, ":" and nothing after it.
RemoveFrame(t) ==
  LET body == <<t>> \o profile \o <<46>> \o keyNumber \o <<58>>
  IN Magic \o <<Len(body)>> \o body
AliasRemove23 == <<101, 98, 102, 5, 51, 50, 46, 51, 58>>    \* "ebf" 5 "32.3:"
ScriptRemove23 == <<101, 98, 102, 5, 55, 50, 46, 51, 58>>   \* "ebf" 5 "72.3:"

\* C17: the alias-remove and script-remove frames of a save (container
\* hidden) are "ebf", length, "3" or "7", profile, ".", key, ":" with the
\* length byte equal to the frame length minus 4 and with nothing after the
\* ':', whatever the alias or script text is; with profile '2' and key 3 they
\* are "ebf" 5 "32.3:" and "ebf" 5 "72.3:".
C17_RemoveFrames ==
  /\ (spc = "cfg2" /\ aliasHidden) =>
       /\ inflight = RemoveFrame(51)
       /\ (profile = <<50>> /\ keyNumber = <<51>>) => inflight = AliasRemove23
  /\ (spc = "cfg3" /\ scriptHidden) =>
       /\ inflight = RemoveFrame(55)
       /\ (profile = <<50>> /\ keyNumber = <<51>>) => inflight = ScriptRemove23
  /\ \A f \in WireFrames :
       FrameType(f) \in {51, 55} =>
         /\ f = RemoveFrame(FrameType(f))
         /\ f[4] = Len(f) - 4
         /\ f[Len(f)] = 58

\* C17 witness: with profile '2', key 3, both containers hidden and a
\* non-empty alias text, the alias-remove frame has been written and the
\* script-remove frame is in flight.
C17_Witness ==
  /\ profile = <<50>> /\ keyNumber = <<51>>
  /\ aliasHidden /\ scriptHidden
  /\ alias_input # <<>>
  /\ spc = "cfg3"
  /\ wire[Len(wire)] = AliasRemove23
  /\ inflight = ScriptRemove23

\* The substitutions of the table applied in the order given by a sequence
\* of table indices.
RECURSIVE replaceInOrder(_, _)
replaceInOrder(s, order) ==
  IF order = <<>> \/ s = <<>> THEN s
  ELSE replaceInOrder(replace(s, ModifierTable[Head(order)][1],
                                 ModifierTable[Head(order)][2]),
                      Tail(order))

\* Orders of the table: the reverse order, every rotation, and every exchange
\* of two entries.
TableSize == Len(ModifierTable)
Reversed == [k \in 1..TableSize |-> TableSize + 1 - k]
Rotated(r) == [k \in 1..TableSize |-> ((k + r - 1) % TableSize) + 1]
Exchanged(i, j) ==
  [k \in 1..TableSize |-> IF k = i THEN j ELSE IF k = j THEN i ELSE k]
Orders ==
  {Reversed}
    \cup { Rotated(r) : r \in 0..(TableSize - 1) }
    \cup { Exchanged(i, j) : i, j \in 1..TableSize }

\* C18: the escaped text in the macro frame of a save, which replaceModifier
\* computes in its fixed order, is what the substitutions of the table give
\* in every other order.
C18_OrderIndependent ==
  spc = "cfg1" =>
    \A order \in Orders :
      replaceInOrder(input, order) = SubSeq(inflight, 11, Len(inflight))

\* C18 witness: a text with a modifier and "{f10}", tokens that the table
\* lists far apart, was saved and the frame holds the two sentinels.
C18_Witness ==
  /\ spc = "cfg1"
  /\ getModifierNum(input) > 0
  /\ includes(input, ModifierTable[24][1])
  /\ Len(input) > 10
  /\ Len(inflight) = 12

\* C19: once a send has ended, normally (no send in progress) or with a
\* rejected write, the writer is unlocked, so that a later send can acquire
\* it.
C19_WriterReleasedOnEveryPath ==
  spc \in {"none", "failed"} => ~writerLocked

\* C20: when the read loop of an invocation stops, after a chunk read with
\* the stop flag set or at the end of the stream, the reader's lock has been
\* released by the time port.close() is called; and the port is never
\* closing or closed while the reader's lock is held.
C20_ReaderReleasedBeforeClose ==
  /\ [][ \A i \in 1..MaxConnects :
           ( /\ \/ \E value \in Chunks : ReadChunk(i, value)
                \/ ReadDone(i)
             /\ conn'[i].pc # "read" )
             => ~readerLocked' ]_vars
  /\ [](portState \in {"closing", "closed"} => ~readerLocked)

\* C21: a disconnect request sets the stop flag and nothing else: the
\* invocation waiting in reader.read() keeps waiting, the port and its locks
\* are untouched. The read that is pending when the flag is set still
\* completes and its chunk is parsed (the banner "APP-VER=7" read into an
\* empty buffer sets version 7); after it the invocation starts no further
\* read. The port is open as long as an invocation waits in reader.read().
C21_CooperativeCancellation ==
  /\ [][ DisconnectClick =>
           (~portOpen' /\ UNCHANGED << conn, portVars, version_number,
                                       writerVars, wire >>) ]_vars
  /\ [][ \A i \in 1..MaxConnects :
           ( /\ ~portOpen /\ conn[i].pc = "read"
             /\ \E value \in Chunks : ReadChunk(i, value) )
             => /\ conn'[i].pc # "read"
                /\ (conn[i].rsp = <<>> /\ ReadChunk(i, AppVer7))
                     => version_number' = Num(7) ]_vars
  /\ [](\A i \in 1..MaxConnects : conn[i].pc = "read" => portState = "opened")

\* C21 witness: a disconnect was requested while the first read of the only
\* session was pending; that read has since returned "APP-VER=7", which was
\* parsed, and the invocation has left its loop.
C21_Witness ==
  /\ nConn = 1
  /\ ~portOpen /\ ~connectHidden
  /\ conn[1].pc = "caught"
  /\ version_number = Num(7)
  /\ portState = "opened" /\ readerLocked

\* The type digits of the frame a send writes at each of its positions: one,
\* but for sendAliasConfig, whose argument decides between '2' and '3'.
KindType ==
  [ query |-> {53}, led |-> {49}, wifi |-> {52}, cfg1 |-> {48},
    cfg2 |-> {IF aliasHidden THEN 51 ELSE 50},
    cfg3 |-> {IF scriptHidden THEN 55 ELSE 54},
    alias |-> AliasTypes ]

\* The raw text contains at least one of the 8 modifier names.
HasModifier(text) ==
  \E k \in 1..Len(ModifierNames) : includes(text, ModifierNames[k])

\* C22: every frame in flight or written starts with "ebf" and has a type
\* digit '0'..'7' at offset 4; the frame in flight has the type digit of its
\* kind (macro 0, LED 1, alias-add 2, alias-remove 3, wifi 4, version query
\* 5, script-add 6, script-remove 7); the macro frame continues with
\* profile, '.', key, ':', the flag '1' when the raw text has a modifier name
\* and '0' otherwise, and the escaped text.
C22_FrameLayout ==
  /\ \A f \in WireFrames \cup (IF inflight = <<>> THEN {} ELSE {inflight}) :
       /\ SubSeq(f, 1, 3) = Magic
       /\ FrameType(f) \in 48..55
  /\ inflight # <<>> => FrameType(inflight) \in KindType[spc]
  /\ spc = "cfg1" =>
       SubSeq(inflight, 6, Len(inflight))
         = profile \o <<46>> \o keyNumber \o <<58>>
             \o <<IF HasModifier(input) THEN 49 ELSE 48>>
             \o SubSeq(inflight, Len(inflight) - Len(replaceModifier(input)) + 1,
                       Len(inflight))
  /\ spc = "cfg1" =>
       SubSeq(inflight, Len(inflight) - Len(replaceModifier(input)) + 1,
              Len(inflight)) = replaceModifier(input)

\* C22 witness: a macro frame with the modifier flag '1' is in flight for
\* key '3': "ebf", length, '0', profile, ".3:", '1', escaped text.
C22_Witness ==
  /\ spc = "cfg1"
  /\ keyNumber = <<51>>
  /\ HasModifier(input)
  /\ inflight[5] = 48
  /\ inflight[10] = 49

\* The frame string whose bytes are in flight at each position of a save.
FrameString ==
  [ cfg1 |-> encode(input),
    cfg2 |-> encodeAliasConfig(~aliasHidden, alias_input),
    cfg3 |-> encodeScriptConfig(~scriptHidden, script_input) ]

\* C23: at every offset other than 3, the byte of a frame of a save handed
\* to the writer equals the code unit of the frame string at that offset,
\* for the macro frame and for the alias and script frames with their
\* unvalidated texts.
C23_BytesAreCodeUnits ==
  spc \in {"cfg1", "cfg2", "cfg3"} =>
    /\ Len(inflight) = Len(FrameString[spc])
    /\ \A k \in 1..Len(inflight) :
         k # 4 => inflight[k] = FrameString[spc][k]

\* The inbound text so far is the banner: "APP-VER=" and then one or more
\* decimal digits and nothing else.
IsBanner(text) ==
  /\ Len(text) > Len(Marker)
  /\ StartsWith(text, Marker)
  /\ \A k \in (Len(Marker) + 1)..Len(text) : IsDigit(text[k])

\* C24: when the chunks read so far add up to a banner, "APP-VER=" followed
\* by a decimal integer, version_number is that whole integer, however the
\* text was split into chunks.
C24_ChunkingIndependent ==
  LET text == Flatten(ChunksRead)
  IN IsBanner(text) =>
       version_number = DigitsValue(AfterMarker(text))

\* The alias and script frames of a save for the current containers.
AliasKind == IF aliasHidden THEN 51 ELSE 50     \* remove '3', add '2'
ScriptKind == IF scriptHidden THEN 55 ELSE 54   \* remove '7', add '6'

\* C25: an accepted save whose writes are fulfilled writes exactly three
\* frames next to each other: its macro frame, then the alias frame
\* (alias-add when the alias container is shown, alias-remove otherwise),
\* then the script frame (script-add or script-remove likewise), and no
\* fourth one; from the acquisition for the macro frame to the release after
\* the script frame the save holds the writer, and alias and script frames
\* are written by saves only.
C25_SaveWritesThreeFrames ==
  /\ spc \in {"cfg1", "cfg2", "cfg3"} => writerLocked
  /\ spc = "cfg1" =>
       (Len(wire) = 0 \/ FrameType(wire[Len(wire)]) \notin MacroTypes \cup AliasTypes)
  /\ \A k \in 1..Len(wire) :
       /\ FrameType(wire[k]) \in MacroTypes =>
            /\ IF k + 1 <= Len(wire)
               THEN FrameType(wire[k + 1]) = AliasKind
               ELSE spc \in {"cfg2", "failed"} /\ writerLocked
            /\ IF k + 2 <= Len(wire)
               THEN FrameType(wire[k + 2]) = ScriptKind
               ELSE k + 1 = Len(wire) => (spc \in {"cfg3", "failed"} /\ writerLocked)
            /\ k + 3 <= Len(wire) =>
                 FrameType(wire[k + 3]) \notin AliasTypes \cup ScriptTypes
            /\ (k + 2 = Len(wire) /\ spc # "failed") => spc # "cfg3"
       /\ FrameType(wire[k]) \in AliasTypes =>
            k > 1 /\ FrameType(wire[k - 1]) \in MacroTypes
       /\ FrameType(wire[k]) \in ScriptTypes =>
            k > 2 /\ FrameType(wire[k - 1]) \in AliasTypes
                  /\ FrameType(wire[k - 2]) \in MacroTypes

\* C25 witness: a save with the alias container shown and the script
\* container hidden has written its macro, alias-add and script-remove
\* frames after the version query and has released the writer.
C25_Witness ==
  /\ ~aliasHidden /\ scriptHidden
  /\ Len(wire) = 4
  /\ FrameType(wire[2]) = 48
  /\ FrameType(wire[3]) = 50
  /\ FrameType(wire[4]) = 55
  /\ spc = "none" /\ ~writerLocked

\* The address of a frame of a save: profile, '.', key (one character each).
Address(f) == SubSeq(f, 6, 8)

\* C26: the alias frame and the script frame of a save carry the profile and
\* the key of its macro frame, also when setProfile or onMicropadPress runs
\* between the writes of the save.
C26_SameAddressInSave ==
  \A k \in 1..Len(wire) :
    FrameType(wire[k]) \in MacroTypes =>
      /\ k + 1 <= Len(wire) => Address(wire[k + 1]) = Address(wire[k])
      /\ k + 2 <= Len(wire) => Address(wire[k + 2]) = Address(wire[k])
      /\ (k = Len(wire) /\ spc = "cfg2") => Address(inflight) = Address(wire[k])
      /\ (k + 1 = Len(wire) /\ spc = "cfg3") => Address(inflight) = Address(wire[k])

====
